---- MODULE Spec2Model ----
(***************************************************************************)
(* ConteMarlo.py: an M/M/c discrete-event queue simulation                 *)
(* (QueueSystem.run), its statistics collector (StatsCollector), the       *)
(* Monte Carlo replication driver (MonteCarloRunner.run_all) and the       *)
(* controller that runs the driver on a worker thread and polls its        *)
(* progress queue from the Tk main loop (AppController).                   *)
(*                                                                         *)
(* Virtual time is counted in whole ticks.  A draw of                      *)
(* np.random.exponential(1/rate) is a standard draw u of at least one tick *)
(* scaled by 1/rate and rounded up to a tick, so every sample the model    *)
(* produces for a positive rate is at least one tick long.  Rational       *)
(* results (means, variances) are kept as reduced fractions <<num, den>>.  *)
(*                                                                         *)
(* Three specifications share the actions: SimSpec is one run() of one     *)
(* QueueSystem on any sequence of draws, RunnerSpec one run_all on any     *)
(* sequence of draws, and Spec the application: the Tk main loop and the   *)
(* worker thread interleaved, the draws coming from the process-wide       *)
(* generator seeded at import.  The Limpiar button (reset) and the drawing *)
(* of the histogram are left out; the data sets handed to plot_results are *)
(* kept in plotted.                                                        *)
(***************************************************************************)
EXTENDS Integers, Sequences, FiniteSets, TLC

\* ------------------------------------------------------------------ bounds
\* largest standard exponential draw, in ticks
MaxSample == 2
\* largest simulation horizon (sim_time), in ticks
MaxSimTime == 4
\* largest number of servers entered
MaxServers == 2
\* largest arrival / service rate entered
MaxRate == 2

\* largest number of replications entered
MaxRuns == 2

\* largest number of clicks on Ejecutar
MaxSessions == 2
MaxCalls == 2
MaxWaits == 3
MaxWait == 3

\* RNG_SEED
RNG_SEED == 42

\* cap of the waiting list; arrivals are at least a tick apart and the first
\* one is served at once, so run() never holds MaxSimTime customers waiting
MaxQueue == MaxSimTime

Rates == -1..MaxRate
ServerCounts == 0..MaxServers
SimTimes == 0..MaxSimTime
Draws == 1..MaxSample
RunCounts == 0..MaxRuns

\* the params dict run_thread builds from the entry fields
ParamSets ==
    [arrival_rate : Rates, service_rate : Rates,
     servers : ServerCounts, sim_time : SimTimes]

\* ----------------------------------------------------------------- helpers
RECURSIVE SumSeq(_)
SumSeq(s) == IF s = <<>> THEN 0 ELSE Head(s) + SumSeq(Tail(s))

RECURSIVE SumSq(_)
SumSq(s) == IF s = <<>> THEN 0 ELSE Head(s) * Head(s) + SumSq(Tail(s))

\* Python's max(a, b)
Max2(a, b) == IF a >= b THEN a ELSE b

\* the latest entry taken where the earliest is meant
LatestOf(s) == CHOOSE x \in {s[k] : k \in DOMAIN s} : \A k \in DOMAIN s : x >= s[k]

\* Python's min(list) of a non-empty list
MinOf(s) == CHOOSE x \in {s[k] : k \in DOMAIN s} : \A k \in DOMAIN s : x <= s[k]

\* numpy's arr.max() of a non-empty array
MaxOf(s) == CHOOSE x \in {s[k] : k \in DOMAIN s} : \A k \in DOMAIN s : x >= s[k]

\* list.index(x): the first position holding x
IndexOf(s, x) == CHOOSE k \in DOMAIN s : s[k] = x /\ \A j \in 1..(k - 1) : s[j] # x

\* a removal that drops every entry equal to the one at idx
PopAtAll(s, idx) == SelectSeq(s, LAMBDA x : x # s[idx])

\* list.pop(idx) seen as the list that remains
PopAt(s, idx) == [k \in 1..(Len(s) - 1) |-> IF k < idx THEN s[k] ELSE s[k + 1]]

RECURSIVE Gcd(_, _)
Gcd(a, b) == IF b = 0 THEN a ELSE Gcd(b, a % b)

Abs(a) == IF a < 0 THEN -a ELSE a

\* the float num/den, kept exact as a reduced fraction (den > 0)
Frac(num, den) ==
    LET g == Gcd(Abs(num), den)
    IN  IF num = 0 THEN <<0, 1>> ELSE <<num \div g, den \div g>>

\* ------------------------------------------------------------------- state
VARIABLES
    \* QueueSystem fields (simPc is the position inside run())
    lambda_, mu, c, sim_time, clock, busy_servers, queue, waits,
    \* locals of QueueSystem.run and what it returned / raised
    t_next_arrival, t_next_departure, simPc, result, exc,
    \* MonteCarloRunner fields, the loop index of run_all and its position
    runs, params, means, progress_queue, i, runnerPc,
    \* the process-wide numpy generator
    rng,
    \* AppController: the entry fields, the button, the progress bar, the
    \* pending root.after callbacks, the position of the Tk main loop and
    \* of the worker thread, the error dialog, the data sets plotted so far
    \* and the number of clicks on Ejecutar handled
    entries, btn_run, progress_maximum, progress_value, pending, guiPc,
    workerPc, messagebox, plotted, sessions

simVars == <<lambda_, mu, c, sim_time, clock, busy_servers, queue, waits,
             t_next_arrival, t_next_departure, simPc, result, exc>>

runnerVars == <<runs, params, means, progress_queue, i, runnerPc>>

appVars == <<entries, btn_run, progress_maximum, progress_value, pending,
             guiPc, workerPc, messagebox, plotted, sessions>>

vars == <<simVars, runnerVars, rng, appVars>>

\* ------------------------------------------------- np.random.exponential
\* 1/rate raises ZeroDivisionError for rate = 0; numpy raises ValueError
\* for a negative scale
ExponentialError(rate) ==
    IF rate = 0 THEN "ZeroDivisionError"
    ELSE IF rate < 0 THEN "ValueError" ELSE "none"

\* a bug that would compute the scale 1/rate with integer division
ExponentialIntDiv(rate, u) == (1 \div rate) * u

\* np.random.exponential(1/rate) for rate > 0 and standard draw u
Exponential(rate, u) == (u + rate - 1) \div rate

\* ------------------------------------------------------- StatsCollector
\* StatsCollector.add_wait
AddWait(ws, wait_time) == Append(ws, wait_time)

\* results without the guards on len(arr): 0/0 for no sample, a division
\* by n - 1 = 0 for one
ResultsUnguarded(ws) ==
    LET n == Len(ws)
        s == SumSeq(ws)
    IN  [mean_wait |-> IF n > 0 THEN Frac(s, n) ELSE <<0, 0>>,
         var_wait  |-> IF n > 1 THEN Frac(n * SumSq(ws) - s * s, n * (n - 1))
                       ELSE <<0, 0>>,
         max_wait  |-> IF n > 0 THEN MaxOf(ws) ELSE 0,
         count     |-> n]

\* results with the population variance (ddof = 0)
ResultsPopulation(ws) ==
    LET n == Len(ws)
        s == SumSeq(ws)
    IN  [mean_wait |-> IF n > 0 THEN Frac(s, n) ELSE <<0, 1>>,
         var_wait  |-> IF n > 1 THEN Frac(n * SumSq(ws) - s * s, n * n)
                       ELSE <<0, 1>>,
         max_wait  |-> IF n > 0 THEN MaxOf(ws) ELSE 0,
         count     |-> n]

\* StatsCollector.results
Results(ws) ==
    LET n == Len(ws)
        s == SumSeq(ws)
    IN  [mean_wait |-> IF n > 0 THEN Frac(s, n) ELSE <<0, 1>>,
         var_wait  |-> IF n > 1 THEN Frac(n * SumSq(ws) - s * s, n * (n - 1))
                       ELSE <<0, 1>>,
         max_wait  |-> IF n > 0 THEN MaxOf(ws) ELSE 0,
         count     |-> n]

\* ---------------------------------------------------------- QueueSystem
\* QueueSystem.__init__
Construct(arrival_rate, service_rate, servers, T) ==
    /\ lambda_' = arrival_rate
    /\ mu' = service_rate
    /\ c' = Max2(1, servers)
    /\ sim_time' = T
    /\ clock' = 0
    /\ busy_servers' = 0
    /\ queue' = <<>>
    /\ waits' = <<>>
    /\ t_next_arrival' = 0
    /\ t_next_departure' = <<>>
    /\ simPc' = "new"
    /\ result' = <<>>
    /\ exc' = "none"

\* an exception leaves run(): the fields keep what was assigned before it
Raise(e) ==
    /\ simPc' = "raised"
    /\ exc' = e

\* run(), the first draw: t_next_arrival = exponential(1/lambda)
RunStart(u) ==
    /\ simPc = "new"
    /\ IF ExponentialError(lambda_) # "none"
       THEN /\ Raise(ExponentialError(lambda_))
            /\ UNCHANGED t_next_arrival
       ELSE /\ t_next_arrival' = Exponential(lambda_, u)
            /\ simPc' = "loop"
            /\ UNCHANGED exc
    /\ UNCHANGED <<lambda_, mu, c, sim_time, clock, busy_servers, queue, waits,
                   t_next_departure, result>>

\* the loop condition: while self.clock < self.sim_time
Running == simPc = "loop" /\ clock < sim_time

\* the test with a strict comparison: a departure wins a tie
ArrivalFirstStrict ==
    IF t_next_departure = <<>> THEN TRUE
    ELSE t_next_arrival < MinOf(t_next_departure)

\* next_depart = min(t_next_departure) if t_next_departure else inf, and
\* the test t_next_arrival <= next_depart
ArrivalFirst ==
    IF t_next_departure = <<>> THEN TRUE
    ELSE t_next_arrival <= MinOf(t_next_departure)

\* the test that leaves the last server unused
ServerFreeButOne == busy_servers + 1 < c

\* if self.busy_servers < self.c
ServerFree == busy_servers < c

\* the waiting list after an arrival joined at the front
EnqueueFront(q, t) == <<t>> \o q

\* self.queue.append(self.clock)
Enqueue(q, t) == Append(q, t)

\* a departure that reads the head of the waiting list and leaves it there
Peek(q) == q

\* the list left by self.queue.pop(0)
Dequeue(q) == Tail(q)

\* the arrival branch; us is the service draw, ua the interarrival draw
\* (the waiting list is capped at MaxQueue, which run() never reaches)
Arrival(us, ua) ==
    /\ Running
    /\ ArrivalFirst
    /\ clock' = t_next_arrival
    /\ IF ServerFree
       THEN /\ busy_servers' = busy_servers + 1
            /\ IF ExponentialError(mu) # "none"
               THEN /\ Raise(ExponentialError(mu))
                    /\ UNCHANGED <<t_next_departure, t_next_arrival>>
               ELSE /\ t_next_departure' =
                         Append(t_next_departure, clock' + Exponential(mu, us))
                    /\ t_next_arrival' = clock' + Exponential(lambda_, ua)
                    /\ UNCHANGED <<simPc, exc>>
            /\ UNCHANGED queue
       ELSE /\ Len(queue) < MaxQueue
            /\ queue' = Enqueue(queue, clock')
            /\ t_next_arrival' = clock' + Exponential(lambda_, ua)
            /\ UNCHANGED <<busy_servers, t_next_departure, simPc, exc>>
    /\ UNCHANGED <<lambda_, mu, c, sim_time, waits, result>>

\* the wait computed with its operands swapped
WaitTimeSwapped(now, t_arrival) == t_arrival - now

\* wait_time = self.clock - t_arrival
WaitTime(now, t_arrival) == now - t_arrival

\* the departure branch; us is the service draw of the customer taken
\* from the waiting list
Departure(us) ==
    /\ Running
    /\ ~ArrivalFirst
    /\ LET next_depart == MinOf(t_next_departure)
           idx == IndexOf(t_next_departure, next_depart)
           rest == PopAt(t_next_departure, idx)
       IN  /\ clock' = next_depart
           /\ IF queue # <<>>
              THEN /\ queue' = Dequeue(queue)
                   /\ waits' = AddWait(waits, WaitTime(clock', Head(queue)))
                   /\ IF ExponentialError(mu) # "none"
                      THEN /\ Raise(ExponentialError(mu))
                           /\ t_next_departure' = rest
                      ELSE /\ t_next_departure' =
                                Append(rest, clock' + Exponential(mu, us))
                           /\ UNCHANGED <<simPc, exc>>
                   /\ UNCHANGED busy_servers
              ELSE /\ busy_servers' = busy_servers - 1
                   /\ t_next_departure' = rest
                   /\ UNCHANGED <<queue, waits, simPc, exc>>
    /\ UNCHANGED <<lambda_, mu, c, sim_time, t_next_arrival, result>>

\* the loop ends and run() returns self.stats.results()
RunReturn ==
    /\ simPc = "loop"
    /\ ~(clock < sim_time)
    /\ simPc' = "returned"
    /\ result' = <<Results(waits)>>
    /\ UNCHANGED <<lambda_, mu, c, sim_time, clock, busy_servers, queue, waits,
                   t_next_arrival, t_next_departure, exc>>

\* no QueueSystem exists (before the first and between replications)
NoModel ==
    /\ lambda_ = 0
    /\ mu = 0
    /\ c = 0
    /\ sim_time = 0
    /\ clock = 0
    /\ busy_servers = 0
    /\ queue = <<>>
    /\ waits = <<>>
    /\ t_next_arrival = 0
    /\ t_next_departure = <<>>
    /\ simPc = "none"
    /\ result = <<>>
    /\ exc = "none"

\* the QueueSystem of a finished replication is dropped
DropModel ==
    /\ lambda_' = 0
    /\ mu' = 0
    /\ c' = 0
    /\ sim_time' = 0
    /\ clock' = 0
    /\ busy_servers' = 0
    /\ queue' = <<>>
    /\ waits' = <<>>
    /\ t_next_arrival' = 0
    /\ t_next_departure' = <<>>
    /\ simPc' = "none"
    /\ result' = <<>>
    /\ exc' = "none"

\* ----------------------------------------------------- MonteCarloRunner
\* MonteCarloRunner.__init__
NewRunner(n, ps) ==
    /\ runs = n
    /\ params = ps
    /\ means = <<>>
    /\ progress_queue = <<>>
    /\ i = 0
    /\ runnerPc = "new"

\* a run_all that keeps the means of an earlier call
NotCleared(ms) == ms

\* self.means.clear()
Cleared(ms) == <<>>

\* run_all: self.means.clear() and the first value of range(1, runs + 1)
RunAllBegin ==
    /\ runnerPc = "new"
    /\ means' = Cleared(means)
    /\ i' = 1
    /\ runnerPc' = "loop"
    /\ UNCHANGED <<runs, params, progress_queue>>

\* run_all: self.model_cls(**self.params) of replication i
NewModel ==
    /\ runnerPc = "loop"
    /\ i <= runs
    /\ simPc = "none"
    /\ Construct(params.arrival_rate, params.service_rate, params.servers,
                 params.sim_time)
    /\ UNCHANGED runnerVars

\* a notification that carries the count of means instead of the index
PutCount(q, k) == Append(q, Len(q))

\* self.progress_queue.put(i)
Put(q, k) == Append(q, k)

\* run_all: run() returned res; append res['mean_wait'], put(i), next i;
\* the QueueSystem is dropped
Collect ==
    /\ runnerPc = "loop"
    /\ simPc = "returned"
    /\ means' = Append(means, result[1].mean_wait)
    /\ progress_queue' = Put(progress_queue, i)
    /\ i' = i + 1
    /\ DropModel
    /\ UNCHANGED <<runs, params, runnerPc>>

\* run_all: range(1, runs + 1) is exhausted, return self.means
RunAllReturn ==
    /\ runnerPc = "loop"
    /\ i > runs
    /\ simPc = "none"
    /\ runnerPc' = "returned"
    /\ UNCHANGED <<runs, params, means, progress_queue, i>>

\* run_all invoked again on a runner whose earlier call has returned, at
\* most MaxCalls calls on one runner
RunAllAgain ==
    /\ runnerPc = "returned"
    /\ Len(progress_queue) < MaxCalls * runs
    /\ means' = Cleared(means)
    /\ i' = 1
    /\ runnerPc' = "loop"
    /\ UNCHANGED <<runs, params, progress_queue>>

\* ------------------------------------------------------------------ rng
\* the state np.random.seed(seed) leaves the generator in
Seeded(seed) == seed % 64

\* the generator's state after one draw (a full-period congruential
\* generator stands for numpy's: what matters is that a draw is a function
\* of the state and moves it on)
NextRng(g) == (13 * g + 7) % 64

\* the standard exponential draw the generator yields in state g
Draw(g) == 1 + ((g \div 8) % MaxSample)

\* ------------------------------------------------------- AppController
\* entry fields as build_controls fills them (the defaults, scaled to
\* the model's ticks)
EntryBase ==
    [arrival_rate |-> 1, service_rate |-> 1, servers |-> 1, sim_time |-> MaxSimTime]

\* the entry fields hold text float() / int() accept, or do not
EntrySets ==
    [ok : {TRUE}, params : ParamSets, runs : RunCounts]
    \cup [ok : {FALSE}, params : {EntryBase}, runs : {0}]

\* AppController.__init__ / build_controls, once the user has typed
AppInit ==
    /\ entries \in EntrySets
    /\ btn_run = "normal"
    /\ progress_maximum = 100
    /\ progress_value = 0
    /\ pending = 0
    /\ guiPc = "idle"
    /\ workerPc = "none"
    /\ messagebox = "none"
    /\ plotted = <<>>
    /\ sessions = 0

\* a start_sim that leaves the button usable
ButtonLeftNormal == "normal"

\* self.btn_run.config(state='disabled')
ButtonWhileRunning == "disabled"

\* start_sim, the command of the Ejecutar button
StartSim ==
    /\ guiPc = "idle"
    /\ btn_run = "normal"
    /\ sessions < MaxSessions
    /\ sessions' = sessions + 1
    /\ IF ~entries.ok
       THEN /\ messagebox' = "Error"
            /\ UNCHANGED <<btn_run, progress_maximum, progress_value,
                           progress_queue, workerPc, pending>>
       ELSE /\ btn_run' = ButtonWhileRunning
            /\ progress_maximum' = entries.runs
            /\ progress_value' = 0
            /\ progress_queue' = <<>>
            /\ workerPc' = "started"
            /\ pending' = pending + 1
            /\ UNCHANGED messagebox
    /\ UNCHANGED <<entries, guiPc, plotted, rng, simVars, runs, params, means,
                   i, runnerPc>>

\* run_thread: build params and the MonteCarloRunner around progress_q
RunThread ==
    /\ workerPc = "started"
    /\ workerPc' = "run_all"
    /\ runs' = entries.runs
    /\ params' = entries.params
    /\ means' = <<>>
    /\ i' = 0
    /\ runnerPc' = "new"
    /\ UNCHANGED <<progress_queue, rng, simVars, entries, btn_run,
                   progress_maximum, progress_value, pending, guiPc,
                   messagebox, plotted, sessions>>

\* run_thread: run_all returned, self.plot_results(means)
PlotResults ==
    /\ workerPc = "run_all"
    /\ runnerPc = "returned"
    /\ plotted' = Append(plotted, means)
    /\ workerPc' = "plotted"
    /\ UNCHANGED <<simVars, runnerVars, rng, entries, btn_run,
                   progress_maximum, progress_value, pending, guiPc,
                   messagebox, sessions>>

\* run_thread: self.btn_run.config(state='normal'), the thread ends
EnableButton ==
    /\ workerPc = "plotted"
    /\ btn_run' = "normal"
    /\ workerPc' = "finished"
    /\ UNCHANGED <<simVars, runnerVars, rng, entries, progress_maximum,
                   progress_value, pending, guiPc, messagebox, plotted,
                   sessions>>

\* an exception raised inside run() leaves run_all and run_thread: the
\* thread ends without plotting and without touching the button
ThreadDies ==
    /\ workerPc = "run_all"
    /\ simPc = "raised"
    /\ workerPc' = "died"
    /\ UNCHANGED <<simVars, runnerVars, rng, entries, btn_run,
                   progress_maximum, progress_value, pending, guiPc,
                   messagebox, plotted, sessions>>

\* check_progress, up to queue.Empty: a pending callback fires and takes
\* every notification out of the queue, the last one staying displayed
PollDrain ==
    /\ guiPc = "idle"
    /\ pending > 0
    /\ pending' = pending - 1
    /\ progress_value' =
          IF progress_queue = <<>> THEN progress_value
          ELSE progress_queue[Len(progress_queue)]
    /\ progress_queue' = <<>>
    /\ guiPc' = "check"
    /\ UNCHANGED <<simVars, runs, params, means, i, runnerPc, rng, entries,
                   btn_run, progress_maximum, workerPc, messagebox, plotted,
                   sessions>>

\* check_progress, the test of the button: poll again while it is disabled
PollCheck ==
    /\ guiPc = "check"
    /\ pending' = IF btn_run = "disabled" THEN pending + 1 ELSE pending
    /\ guiPc' = "idle"
    /\ UNCHANGED <<simVars, runnerVars, rng, entries, btn_run,
                   progress_maximum, progress_value, workerPc, messagebox,
                   plotted, sessions>>

\* ------------------------------------------- one run of one QueueSystem
\* no application around the QueueSystem or the runner
NoApp ==
    /\ rng = Seeded(RNG_SEED)
    /\ entries = [ok |-> FALSE, params |-> EntryBase, runs |-> 0]
    /\ btn_run = "normal"
    /\ progress_maximum = 100
    /\ progress_value = 0
    /\ pending = 0
    /\ guiPc = "idle"
    /\ workerPc = "none"
    /\ messagebox = "none"
    /\ plotted = <<>>
    /\ sessions = 0

\* a QueueSystem built from any parameters the entry fields can hold
SimInit ==
    /\ lambda_ \in Rates
    /\ mu \in Rates
    /\ \E servers \in ServerCounts : c = Max2(1, servers)
    /\ sim_time \in SimTimes
    /\ clock = 0
    /\ busy_servers = 0
    /\ queue = <<>>
    /\ waits = <<>>
    /\ t_next_arrival = 0
    /\ t_next_departure = <<>>
    /\ simPc = "new"
    /\ result = <<>>
    /\ exc = "none"
    /\ NewRunner(0, [arrival_rate |-> 0, service_rate |-> 0, servers |-> 0,
                     sim_time |-> 0])
    /\ NoApp

\* run() on any sequence of draws
SimStart ==
    \E u \in Draws : RunStart(u) /\ UNCHANGED <<runnerVars, rng, appVars>>

SimArrival ==
    \E us \in Draws, ua \in Draws :
        Arrival(us, ua) /\ UNCHANGED <<runnerVars, rng, appVars>>

SimDeparture ==
    \E us \in Draws : Departure(us) /\ UNCHANGED <<runnerVars, rng, appVars>>

SimReturn == RunReturn /\ UNCHANGED <<runnerVars, rng, appVars>>

SimNext == SimStart \/ SimArrival \/ SimDeparture \/ SimReturn

\* the interpreter keeps executing run() until it returns or raises
SimSpec == SimInit /\ [][SimNext]_vars /\ WF_vars(SimNext)

\* ------------------------------------------------- one call of run_all
\* a runner built from any parameters and replication count
RunnerInit ==
    /\ NoModel
    /\ \E n \in RunCounts, ps \in ParamSets : NewRunner(n, ps)
    /\ NoApp

RunnerBegin == RunAllBegin /\ UNCHANGED <<simVars, rng, appVars>>

RunnerNewModel == NewModel /\ UNCHANGED <<rng, appVars>>

RunnerCollect == Collect /\ UNCHANGED <<rng, appVars>>

RunnerReturn == RunAllReturn /\ UNCHANGED <<simVars, rng, appVars>>

RunnerNext ==
    \/ RunnerBegin
    \/ RunnerNewModel
    \/ SimStart
    \/ SimArrival
    \/ SimDeparture
    \/ SimReturn
    \/ RunnerCollect
    \/ RunnerReturn

RunnerSpec == RunnerInit /\ [][RunnerNext]_vars /\ WF_vars(RunnerNext)

\* one StatsCollector on its own: any add_wait calls, then results()
StatsInit ==
    /\ lambda_ = 0
    /\ mu = 0
    /\ c = 0
    /\ sim_time = 0
    /\ clock = 0
    /\ busy_servers = 0
    /\ queue = <<>>
    /\ waits = <<>>
    /\ t_next_arrival = 0
    /\ t_next_departure = <<>>
    /\ simPc = "collecting"
    /\ result = <<>>
    /\ exc = "none"
    /\ NewRunner(0, [arrival_rate |-> 0, service_rate |-> 0, servers |-> 0,
                     sim_time |-> 0])
    /\ NoApp

StatsAdd ==
    /\ simPc = "collecting"
    /\ Len(waits) < MaxWaits
    /\ \E wait_time \in 0..MaxWait : waits' = AddWait(waits, wait_time)
    /\ UNCHANGED <<lambda_, mu, c, sim_time, clock, busy_servers, queue,
                   t_next_arrival, t_next_departure, simPc, result, exc,
                   runnerVars, rng, appVars>>

StatsResults ==
    /\ simPc = "collecting"
    /\ result' = <<Results(waits)>>
    /\ simPc' = "returned"
    /\ UNCHANGED <<lambda_, mu, c, sim_time, clock, busy_servers, queue, waits,
                   t_next_arrival, t_next_departure, exc,
                   runnerVars, rng, appVars>>

StatsNext == StatsAdd \/ StatsResults

StatsSpec == StatsInit /\ [][StatsNext]_vars

\* one MonteCarloRunner whose run_all is called again after it returned
RunnerAgain == RunAllAgain /\ UNCHANGED <<simVars, rng, appVars>>

RerunNext ==
    \/ RunnerNext
    \/ RunnerAgain

RerunSpec == RunnerInit /\ [][RerunNext]_vars /\ WF_vars(RerunNext)

\* ------------------------------------------------------ the application
\* the process after import (np.random.seed(RNG_SEED)) and main()
Init ==
    /\ rng = Seeded(RNG_SEED)
    /\ NoModel
    /\ NewRunner(0, EntryBase)
    /\ AppInit

\* run() drawing from the process-wide generator: the service draw comes
\* before the interarrival draw, and a call that raises draws nothing
WorkerStart ==
    /\ RunStart(Draw(rng))
    /\ rng' = IF ExponentialError(lambda_) # "none" THEN rng ELSE NextRng(rng)
    /\ UNCHANGED <<runnerVars, appVars>>

WorkerArrival ==
    /\ IF ServerFree
       THEN /\ Arrival(Draw(rng), Draw(NextRng(rng)))
            /\ rng' = IF ExponentialError(mu) # "none" THEN rng
                      ELSE NextRng(NextRng(rng))
       ELSE /\ Arrival(Draw(rng), Draw(rng))
            /\ rng' = NextRng(rng)
    /\ UNCHANGED <<runnerVars, appVars>>

WorkerDeparture ==
    /\ Departure(Draw(rng))
    /\ rng' = IF queue # <<>> /\ ExponentialError(mu) = "none"
              THEN NextRng(rng) ELSE rng
    /\ UNCHANGED <<runnerVars, appVars>>

WorkerNext ==
    \/ RunThread
    \/ RunnerBegin
    \/ RunnerNewModel
    \/ WorkerStart
    \/ WorkerArrival
    \/ WorkerDeparture
    \/ SimReturn
    \/ RunnerCollect
    \/ RunnerReturn
    \/ PlotResults
    \/ EnableButton
    \/ ThreadDies

PollNext == PollDrain \/ PollCheck

Next == StartSim \/ WorkerNext \/ PollNext

\* the worker thread keeps running and due callbacks fire; nothing makes
\* the user click
Spec == Init /\ [][Next]_vars /\ WF_vars(WorkerNext) /\ WF_vars(PollNext)

\* ================================================================ claims
ValidParameters == lambda_ > 0 /\ mu > 0 /\ c >= 1 /\ sim_time > 0

C2_WaitsNonNegative == \A k \in DOMAIN waits : waits[k] >= 0

C2_Witness == \E k \in DOMAIN waits : waits[k] > 0

\* C9: whenever run() is at its loop head or has returned, the pending
\* departures hold one entry per busy server, and at most c of them
C9_DeparturesMatchBusy ==
    simPc \in {"new", "loop", "returned"} =>
        /\ Len(t_next_departure) = busy_servers
        /\ 0 <= busy_servers
        /\ busy_servers <= c

C9_Witness ==
    /\ simPc = "loop"
    /\ c >= 2
    /\ busy_servers = c
    /\ queue # <<>>

IsSorted(q) == \A j \in DOMAIN q, k \in DOMAIN q : j < k => q[j] <= q[k]

\* C10: the waiting list is always in non-decreasing timestamp order, and a
\* step that takes a customer from it takes the earliest one (its head)
C10_QueueFifo ==
    [][/\ IsSorted(queue)
       /\ IsSorted(queue')
       /\ Len(queue') < Len(queue) =>
             /\ queue' = Tail(queue)
             /\ \A k \in DOMAIN queue : Head(queue) <= queue[k]
             /\ waits' = Append(waits, clock' - Head(queue))]_vars

C10_Witness ==
    /\ waits # <<>>
    /\ queue # <<>>
    /\ Head(queue) <= clock
    /\ Head(queue) > clock - waits[Len(waits)]

\* the integers 1..n as a sequence
UpTo(n) == [k \in 1..n |-> k]

\* C3: with a progress sink, a sequential run_all over N replications puts
\* exactly 1, 2, ..., N into it, in that order and once each: the sink
\* always holds 1..k for the k replications finished, and 1..N at return
C3_ProgressInOrder ==
    /\ progress_queue = UpTo(Len(progress_queue))
    /\ runnerPc = "loop" => Len(progress_queue) = i - 1
    /\ runnerPc = "returned" => progress_queue = UpTo(Max2(0, runs))

C3_Witness ==
    /\ runnerPc = "returned"
    /\ runs >= 2
    /\ progress_queue = UpTo(runs)

\* the parameters a session or a QueueSystem may be given, per the data
\* model: rates > 0, at least one server, a positive horizon
ValidParams(ps) ==
    /\ ps.arrival_rate > 0
    /\ ps.service_rate > 0
    /\ ps.servers >= 1
    /\ ps.sim_time > 0

\* C4: in one process (one seed), the executions of run_all on the same
\* valid parameters and replication count hand the same result sequence
\* to plot_results
C4_Determinism ==
    ValidParams(entries.params) =>
        \A a \in DOMAIN plotted, b \in DOMAIN plotted : plotted[a] = plotted[b]

\* C5: a QueueSystem is never constructed from invalid parameters
C5_ConstructionRejectsInvalid ==
    simPc # "none" => ValidParams(params)

\* C6: a session whose input is invalid runs no replication: no step of
\* QueueSystem.run is taken, no mean is appended, no progress is notified
C6_InvalidSessionFailsFast ==
    (entries.ok /\ ~(ValidParams(entries.params) /\ entries.runs >= 1)) =>
        /\ simPc \notin {"loop", "returned"}
        /\ means = <<>>
        /\ progress_queue = <<>>

\* C7: once a replication has raised in the worker, the foreground comes
\* to know: it stops polling (or the button is enabled again) instead of
\* polling for ever with the button disabled
C7_WorkerFaultObserved ==
    (workerPc = "died") ~> (btn_run = "normal" \/ (pending = 0 /\ guiPc = "idle"))

\* C8: when polling has stopped after a session that completed normally,
\* the displayed progress is N and the progress queue is empty
C8_PollerSeesEverything ==
    (/\ ValidParams(entries.params)
     /\ entries.runs >= 1
     /\ workerPc = "finished"
     /\ pending = 0
     /\ guiPc = "idle") =>
        /\ progress_value = entries.runs
        /\ progress_queue = <<>>

\* C11: the clock never moves backwards within a run, and while run() is
\* looping the next arrival and every pending departure are at or after it
C11_ClockMonotonic ==
    [][/\ clock' >= clock
       /\ simPc' = "loop" =>
             /\ t_next_arrival' >= clock'
             /\ \A k \in DOMAIN t_next_departure' : t_next_departure'[k] >= clock']_vars

C11_Witness ==
    /\ simPc = "loop"
    /\ clock >= 2
    /\ waits # <<>>
    /\ Len(t_next_departure) >= 2

\* C12: no wait sample is recorded by an event at or beyond the horizon
C12_HardCutoff ==
    [][Len(waits') > Len(waits) => clock' < sim_time]_vars

\* C13: the queue grows only by an arrival that finds every server busy and
\* a wait is recorded only for a queued customer; so when c is at least the
\* number of arrivals a run can process (at most one per tick of the
\* horizon) nobody queues, no wait is recorded and run() returns count = 0
\* and mean = variance = max = 0
C13_EnoughServersNoWait ==
    /\ [][/\ Len(queue') > Len(queue) => busy_servers = c
          /\ Len(waits') > Len(waits) => queue # <<>>]_vars
    /\ []((simPc \in {"loop", "returned"} /\ c >= sim_time) =>
            /\ queue = <<>>
            /\ waits = <<>>
            /\ simPc = "returned" =>
                  result[1] = [mean_wait |-> <<0, 1>>, var_wait |-> <<0, 1>>,
                               max_wait |-> 0, count |-> 0])

C13_Witness ==
    /\ simPc = "returned"
    /\ c >= sim_time
    /\ busy_servers >= 2
    /\ result[1].count = 0

\* C14: run_all appends the mean of replication i before it notifies i, so
\* whenever a progress value is emitted the result sequence holds exactly
\* that many values, the last being the mean just computed; the sequence
\* run_all returns holds exactly runs values, on a repeated call as well
C14_OneMeanPerReplication ==
    /\ [][progress_queue' # progress_queue =>
            /\ Len(means') = progress_queue'[Len(progress_queue')]
            /\ means' = Append(means, result[1].mean_wait)]_vars
    /\ [](runnerPc = "returned" => Len(means) = runs)

C14_Witness ==
    /\ runnerPc = "returned"
    /\ runs = 2
    /\ Len(progress_queue) = 2 * runs
    /\ \E k \in DOMAIN means : means[k] # <<0, 1>>

\* C15: results() on any list of waits: count is the number of add_wait
\* calls; with no sample mean, variance and max are 0; with one sample the
\* variance is 0 and mean and max are the sample; with two samples a, b the
\* variance is (a - b)^2 / 2
C15_ResultsEdgePolicy ==
    (simPc = "returned" /\ result # <<>>) =>
        LET r == result[1]
            n == Len(waits)
        IN  /\ r.count = n
            /\ n = 0 => r.mean_wait = <<0, 1>> /\ r.var_wait = <<0, 1>>
                        /\ r.max_wait = 0
            /\ n = 1 => r.var_wait = <<0, 1>> /\ r.mean_wait = <<waits[1], 1>>
                        /\ r.max_wait = waits[1]
            /\ n = 2 => r.var_wait =
                           Frac((waits[1] - waits[2]) * (waits[1] - waits[2]), 2)

C15_Witness ==
    /\ simPc = "returned"
    /\ lambda_ = 0
    /\ Len(waits) = 2
    /\ waits[1] # waits[2]
    /\ result[1].var_wait # <<0, 1>>

\* C16: in every iteration of the loop, when no departure is pending or the
\* next arrival is at or before the earliest pending departure the step is
\* the arrival (the clock moves to the arrival time, a server or a waiting
\* place is taken, no wait is recorded); only when the earliest departure is
\* strictly earlier is the step a departure (the clock moves to it, a
\* waiting customer or a server leaves, the next arrival stays scheduled)
C16_ArrivalsWinTies ==
    [][(simPc = "loop" /\ clock < sim_time) =>
          IF (IF t_next_departure = <<>> THEN TRUE
              ELSE \A k \in DOMAIN t_next_departure :
                       t_next_arrival <= t_next_departure[k])
          THEN /\ clock' = t_next_arrival
               /\ waits' = waits
               /\ \/ busy_servers' = busy_servers + 1 /\ queue' = queue
                  \/ busy_servers' = busy_servers
                         /\ queue' = Append(queue, t_next_arrival)
          ELSE /\ \E k \in DOMAIN t_next_departure :
                       /\ t_next_departure[k] < t_next_arrival
                       /\ clock' = t_next_departure[k]
               /\ t_next_arrival' = t_next_arrival
               /\ \/ busy_servers' = busy_servers - 1 /\ queue' = queue
                  \/ busy_servers' = busy_servers /\ queue' = Tail(queue)
                         /\ queue # <<>>]_vars

C16_Witness ==
    /\ simPc = "loop"
    /\ queue # <<>>
    /\ queue[Len(queue)] = clock
    /\ \E k \in DOMAIN t_next_departure : t_next_departure[k] = clock

\* C17: a step of run() either takes the head of the waiting list and
\* records exactly one wait, the new clock minus that customer's arrival
\* time, or records nothing and takes nobody from the list (an arrival
\* served at once records no zero); so the waits recorded are as many as
\* the customers dequeued, and the count run() returns is their number
C17_OneWaitPerDequeue ==
    /\ [][\/ /\ queue # <<>>
             /\ queue' = Tail(queue)
             /\ waits' = Append(waits, clock' - Head(queue))
          \/ /\ waits' = waits
             /\ Len(queue') >= Len(queue)]_vars
    /\ [](simPc = "returned" => result[1].count = Len(waits))

C17_Witness ==
    /\ simPc = "returned"
    /\ c > 0
    /\ result[1].count >= 2
    /\ busy_servers < c

\* C18: work conservation: in every state of run(), whenever a customer is
\* waiting every server is busy
C18_WorkConserving ==
    queue # <<>> => busy_servers = c

C18_Witness ==
    /\ simPc = "loop"
    /\ queue # <<>>
    /\ c = 2
    /\ busy_servers = c
    /\ waits # <<>>

\* C19: at most one worker is active at any time: the button is disabled
\* from the start of a worker until that worker's last statement, and a
\* worker is started only when none was started before or the one before
\* has finished
C19_OneWorker ==
    /\ [](workerPc \in {"started", "run_all", "plotted"} =>
              btn_run = "disabled")
    /\ [][(workerPc' = "started" /\ sessions' # sessions) =>
              workerPc \in {"none", "finished"}]_vars

C19_Witness ==
    /\ sessions = 2
    /\ workerPc = "run_all"
    /\ simPc = "loop"
    /\ plotted # <<>>

\* C20: in a session with valid parameters and at least one replication,
\* at most one check_progress callback is scheduled at any time
C20_OnePoller ==
    (entries.ok /\ ValidParams(entries.params) /\ entries.runs > 0) =>
        pending <= 1

====
